---------------------------- MODULE Spec2Model ----------------------------
(***************************************************************************)
(* Model of src/src/2D.cpp of XPMP2: the 3D -> 2D projection of aircraft   *)
(* positions, the per-frame label pass TwoDDrawLabels, and the control of  *)
(* the draw callback (TwoDInit, TwoDCleanup, XPMPEnableAircraftLabels).    *)
(*                                                                         *)
(* Numbers: the code computes in IEEE-754 single precision.  The model     *)
(* computes the same expressions, in the same order, over exact rationals  *)
(* extended by +Inf, -Inf and NaN (so 1.0f/0 is +Inf, 0*Inf is NaN and a   *)
(* comparison with NaN is false); rounding to 24 bits is not modelled.     *)
(* Distances are whole metres.                                             *)
(***************************************************************************)
EXTENDS Integers, Sequences, FiniteSets, TLC

(***************************************************************************)
(* Bounds of the model                                                     *)
(***************************************************************************)
\* number of aircraft in glob.mapAc during a pass
NumAc == 2
\* cap on the number of registrations the host keeps for CPLabelDrawing
MaxCallbacks == 2

(***************************************************************************)
(* Program constants and enumerations                                      *)
(***************************************************************************)
\* metres per nautical mile, the factor of XPMPSetAircraftLabelDist
M_per_NM == 1852

SWITCH_CFG_OFF  == "SWITCH_CFG_OFF"
SWITCH_CFG_ON   == "SWITCH_CFG_ON"
SWITCH_CFG_AUTO == "SWITCH_CFG_AUTO"
ThreeWaySwitchTy == {SWITCH_CFG_OFF, SWITCH_CFG_ON, SWITCH_CFG_AUTO}

\* the null XPLMDataRef
NULL == "nullptr"

\* names of the data refs TwoDInit looks up
DR_WORLD    == "sim/graphics/view/world_matrix"
DR_PROJ     == "sim/graphics/view/projection_matrix_3d"
DR_WIDTH    == "sim/graphics/view/window_width"
DR_HEIGHT   == "sim/graphics/view/window_height"
DR_VIS_VIEW == "sim/graphics/view/visibility_effective_m"
DR_VIS_WX   == "sim/weather/visibility_effective_m"
DR_FOV      == "sim/graphics/view/field_of_view_deg"
AllDataRefs == {DR_WORLD, DR_PROJ, DR_WIDTH, DR_HEIGHT, DR_VIS_VIEW, DR_VIS_WX, DR_FOV}

(***************************************************************************)
(* Extended rationals: a value is [n |-> num, d |-> den]; den > 0 for a    *)
(* finite value, den = 0 for the IEEE specials +Inf (n = 1), -Inf (n = -1) *)
(* and NaN (n = 0).                                                        *)
(***************************************************************************)
Fin(num, den) == [n |-> num, d |-> den]
PosInf == Fin(1, 0)
NegInf == Fin(-1, 0)
NaN    == Fin(0, 0)
IsFinite(r) == r.d > 0

Abs(i)  == IF i < 0 THEN -i ELSE i
Sign(i) == IF i < 0 THEN -1 ELSE IF i > 0 THEN 1 ELSE 0

\* 1.0f / w   (w an exact integer value; a zero is taken as +0.0)
Recip(w) ==
    IF w = 0 THEN PosInf ELSE Fin(Sign(w), Abs(w))

\* a * r   (a an exact integer value); 0 * Inf is NaN
MulInt(a, r) ==
    IF IsFinite(r) THEN Fin(a * r.n, r.d) ELSE Fin(Sign(a) * r.n, 0)

\* r * 0.5f + 0.5f
HalfPlusHalf(r) ==
    IF IsFinite(r) THEN Fin(r.n + r.d, 2 * r.d) ELSE r

\* c <= r and r <= c for an integer c; false whenever r is NaN
LeqIntR(c, r) ==
    IF IsFinite(r) THEN c * r.d <= r.n ELSE r = PosInf

LeqRInt(r, c) ==
    IF IsFinite(r) THEN r.n <= c * r.d ELSE r = NegInf

\* (int)std::lround(r): nearest integer, halfway cases away from zero.  For
\* an argument that is not finite the C library leaves the value unspecified;
\* the model writes 0 and ConvertTo2d flags the result (field nonFinite).
lround(r) ==
    IF IsFinite(r) THEN Sign(r.n) * ((2 * Abs(r.n) + r.d) \div (2 * r.d)) ELSE 0

(***************************************************************************)
(* 4x4 matrix transform, OpenGL layout (m[0] of the code is m[1] here)     *)
(***************************************************************************)
mult_matrix_vec(m, v) ==
    [i \in 1..4 |-> v[1] * m[i] + v[2] * m[4 + i] + v[3] * m[8 + i] + v[4] * m[12 + i]]

\* float gMatrixWrld[16] etc. as the loader zero-initialises them
MatZero == [i \in 1..16 |-> 0]


(***************************************************************************)
(* The host (X-Plane): what it offers and what it reports per frame.       *)
(***************************************************************************)
MatIdentity == [i \in 1..16 |-> IF i \in {1, 6, 11, 16} THEN 1 ELSE 0]

\* a camera looking along the y axis from 12 m: z_eye = y - 12, y_eye = z
MatLookDown ==
    [i \in 1..16 |-> IF i \in {1, 7, 10, 16} THEN 1 ELSE IF i = 15 THEN -12 ELSE 0]

\* OpenGL perspective matrices with near plane 1 and far plane f:
\* z' = -(f+1)/(f-1) * z_eye - 2f/(f-1),  w' = -z_eye
MatPerspFar3 ==
    [i \in 1..16 |-> IF i \in {1, 6} THEN 1
                     ELSE IF i = 11 THEN -2
                     ELSE IF i = 12 THEN -1
                     ELSE IF i = 15 THEN -3 ELSE 0]

MatPerspFar2 ==
    [i \in 1..16 |-> IF i \in {1, 6} THEN 1
                     ELSE IF i = 11 THEN -3
                     ELSE IF i = 12 THEN -1
                     ELSE IF i = 15 THEN -4 ELSE 0]

\* the frames the host can be in: view matrices, window size, field of view,
\* reported visibility [m] and camera zoom
Scenes ==
    << [wrld |-> MatIdentity, proj |-> MatPerspFar3, width |-> 8, height |-> 4,
        fov |-> 60, visibility |-> 1000, zoom |-> 1],
       [wrld |-> MatLookDown, proj |-> MatPerspFar2, width |-> 6, height |-> 6,
        fov |-> 90, visibility |-> 3000, zoom |-> 2] >>

\* the sets of data refs an X-Plane version can offer
HostDataRefChoices ==
    { AllDataRefs,
      AllDataRefs \ {DR_WORLD, DR_WIDTH, DR_VIS_VIEW},
      AllDataRefs \ {DR_PROJ, DR_HEIGHT, DR_FOV, DR_VIS_VIEW, DR_VIS_WX} }

(***************************************************************************)
(* Aircraft as the label pass reads them.  A label text is represented by  *)
(* the pixel width XPLMMeasureString reports for it (0: the empty string). *)
(* model is the aircraft's CSL model record: "none" (GetModel() is null),  *)
(* the first letter of its wake-turbulence category, or "corrupt" (reading *)
(* the record raises an exception).                                        *)
(***************************************************************************)
AircraftSet ==
    [ rendered : BOOLEAN, shallDrawLabel : BOOLEAN,
      camDist : {1852, 4000},
      model : {"none", "L", "M", "H", "corrupt"},
      x : {0}, y : {0}, z : {-2},
      label : {40}, subLabel : {70} ]
    \cup
    [ rendered : {TRUE}, shallDrawLabel : BOOLEAN,
      camDist : {1852},
      model : {"none", "M"},
      x : {0}, y : {0}, z : {-2},
      label : {40}, subLabel : {0} ]

\* the points and frame states the projection is exercised on by itself
PointSet == [x : {-1, 0, 2}, y : {0, 3}, z : -4..1]
WorldMatrices == {MatZero, MatIdentity, MatLookDown}
ProjMatrices  == {MatZero, MatPerspFar3, MatPerspFar2}
ScreenSizes   == {0, 8}

\* no call of ConvertTo2d recorded
NoConv ==
    [ called |-> FALSE, x |-> 0, y |-> 0, z |-> 0,
      out_x |-> -1, out_y |-> -1, nonFinite |-> FALSE, visible |-> FALSE ]

\* what has been done for an aircraft in the pass
NoAc ==
    [ key |-> 0,
      in |-> [ rendered |-> FALSE, shallDrawLabel |-> FALSE, camDist |-> 0, model |-> "none",
               x |-> 0, y |-> 0, z |-> 0, label |-> 0, subLabel |-> 0 ], threw |-> FALSE, projected |-> FALSE, vertLabelOfs |-> 0,
      visible |-> FALSE, nonFinite |-> FALSE, x |-> -1, y |-> -1, draws |-> <<>> ]

VARIABLES
    glob,               \* the fields of XPMP2::glob this file uses
    drMatrixWrld, drMatrixProj, drScreenWidth, drScreenHeight,
    drVisibility, drFieldOfView,                    \* data ref handles
    gMatrixWrld, gMatrixProj, gScreenW, gScreenH, gFOV,   \* frame state
    hostDataRefs,       \* host: the data refs that exist
    hostScene,          \* host: index into Scenes of the current frame
    drawCallbacks,      \* host: registrations of CPLabelDrawing it holds
    pc,                 \* "idle"; inside TwoDDrawLabels: "entry", "loop"
    it,                 \* position of the loop over glob.mapAc
    posCamera,          \* local of TwoDDrawLabels
    maxLabelDist,       \* local of TwoDDrawLabels
    ac,                 \* the aircraft processed last in the running pass
    nRefresh,           \* history: calls of read_matrices in the running pass
    hostReads,          \* history: host data read in the running pass
    frameFresh,         \* history: frame state was read in the running pass
    failed,             \* history: an aircraft of the running pass raised
    usage,              \* history: "none": no call yet; "init_first": TwoDInit
                        \* once, before any other call; "cleanup": TwoDCleanup
                        \* has been called; "other": any other order
    conv                \* a call of ConvertTo2d by itself: arguments and results

drefs == <<drMatrixWrld, drMatrixProj, drScreenWidth, drScreenHeight,
           drVisibility, drFieldOfView>>
frame == <<gMatrixWrld, gMatrixProj, gScreenW, gScreenH, gFOV>>
host  == <<hostDataRefs, hostScene>>
pass  == <<pc, it, posCamera, maxLabelDist, ac, nRefresh, hostReads, frameFresh, failed>>
vars  == <<glob, drefs, frame, host, drawCallbacks, pass, usage, conv>>

scene == Scenes[hostScene]

(***************************************************************************)
(* Host SDK calls as the code uses them                                    *)
(***************************************************************************)
\* XPLMFindDataRef: the handle, or NULL if the host has no such data ref
XPLMFindDataRef(name) == IF name \in hostDataRefs THEN name ELSE NULL

\* XPLMGetDatavf(dr, buf, 0, 16): fills buf; copies nothing for a NULL handle
XPLMGetDatavf(dr, buf, value) == IF dr = NULL THEN buf ELSE value

\* XPLMGetDatai / XPLMGetDataf: the value; 0 for a NULL handle
XPLMGetDatai(dr, value) == IF dr = NULL THEN 0 ELSE value
XPLMGetDataf(dr, value) == IF dr = NULL THEN 0 ELSE value

\* XPLMRegisterDrawCallback, from n registrations held: the possible numbers
\* held afterwards.  The SDK allows registering a callback again only with
\* another refcon; the code always passes nullptr, so for a repeated
\* registration the host may add an entry or keep the one it has.
XPLMRegisterDrawCallback(n) == IF n = 0 THEN {1} ELSE {n, n + 1}

\* XPLMUnregisterDrawCallback: removes one matching entry, if there is one
XPLMUnregisterDrawCallback(n) == IF n > 0 THEN {n - 1} ELSE {0}


(***************************************************************************)
(* Frame state                                                             *)
(***************************************************************************)
\* mutant: a matrix without data ref is reset instead of left alone
read_matrices_ResetsMissing ==
    /\ gMatrixWrld' = IF drMatrixWrld = NULL THEN MatIdentity ELSE scene.wrld
    /\ gMatrixProj' = IF drMatrixProj = NULL THEN MatIdentity ELSE scene.proj
    /\ gScreenW' = XPLMGetDatai(drScreenWidth, scene.width)
    /\ gScreenH' = XPLMGetDatai(drScreenHeight, scene.height)
    /\ gFOV' = XPLMGetDataf(drFieldOfView, scene.fov)

\* read_matrices()
read_matrices ==
    /\ gMatrixWrld' = XPLMGetDatavf(drMatrixWrld, gMatrixWrld, scene.wrld)
    /\ gMatrixProj' = XPLMGetDatavf(drMatrixProj, gMatrixProj, scene.proj)
    /\ gScreenW' = XPLMGetDatai(drScreenWidth, scene.width)
    /\ gScreenH' = XPLMGetDatai(drScreenHeight, scene.height)
    /\ gFOV' = XPLMGetDataf(drFieldOfView, scene.fov)

(***************************************************************************)
(* Projection                                                              *)
(***************************************************************************)
\* mutant: the OpenGL range whatever the driver
InClipRange_AlwaysLegacy(ndcZ) ==
    LeqIntR(-1, ndcZ) /\ LeqRInt(ndcZ, 1)

\* the return statement of ConvertTo2d: is the NDC depth in the clip range?
InClipRange(ndcZ) ==
    IF glob.UsingModernGraphicsDriver
    THEN LeqIntR(0, ndcZ) /\ LeqRInt(ndcZ, 1)
    ELSE LeqIntR(-1, ndcZ) /\ LeqRInt(ndcZ, 1)

\* clip-space vector of the point (x, y, z) under the cached matrices
ClipOf(x, y, z) ==
    mult_matrix_vec(gMatrixProj, mult_matrix_vec(gMatrixWrld, <<x, y, z, 1>>))

\* ConvertTo2d(x, y, z, out_x, out_y)
ConvertTo2d(x, y, z) ==
    LET afNdc == ClipOf(x, y, z)
        invW  == Recip(afNdc[4])
        ndcX  == MulInt(afNdc[1], invW)
        ndcY  == MulInt(afNdc[2], invW)
        ndcZ  == MulInt(afNdc[3], invW)
        sx    == MulInt(gScreenW, HalfPlusHalf(ndcX))
        sy    == MulInt(gScreenH, HalfPlusHalf(ndcY))
    IN  [ out_x     |-> lround(sx),
          out_y     |-> lround(sy),
          nonFinite |-> ~IsFinite(sx) \/ ~IsFinite(sy),
          visible   |-> InClipRange(ndcZ) ]

(***************************************************************************)
(* Drawing control                                                         *)
(***************************************************************************)
Min(a, b) == IF a < b THEN a ELSE b
Max(a, b) == IF a < b THEN b ELSE a

\* mutant: only the override switches the pass off
ShortCut_OverrideOnly == glob.eLabelOverride = SWITCH_CFG_OFF

\* the short-cut test of TwoDDrawLabels
ShortCut == ~glob.bDrawLabels \/ glob.eLabelOverride = SWITCH_CFG_OFF

\* mutant: the larger instead of the smaller of the two distances
MaxLabelDistOf_Larger(cfgDist, bCutOff, drVis, visibility, zoom) ==
    Max(cfgDist, IF bCutOff /\ drVis # NULL THEN visibility ELSE cfgDist) * zoom

\* the maximum distance for label drawing of this pass
MaxLabelDistOf(cfgDist, bCutOff, drVis, visibility, zoom) ==
    Min(cfgDist, IF bCutOff /\ drVis # NULL THEN visibility ELSE cfgDist) * zoom

\* mutant: the override is not looked at
SkipAc_IgnoresOverride(a) == ~a.rendered \/ ~a.shallDrawLabel

\* the first test of the loop body: not rendered, or label not to be drawn
SkipAc(a) ==
    ~a.rendered \/ ~(a.shallDrawLabel \/ glob.eLabelOverride = SWITCH_CFG_ON)

\* mutant: compares with the configured distance, not the one of the pass
TooFar_ConfiguredOnly(a) == a.camDist > glob.maxLabelDist

\* the second test: farther away from the camera than labels are drawn for
TooFar(a) == a.camDist > maxLabelDist

\* vertical label offset by wake-turbulence category
VertLabelOfs(a) ==
    IF a.model = "none" THEN 10
    ELSE IF a.model = "L" THEN 6
    ELSE IF a.model = "H" THEN 11
    ELSE 10

\* the draw calls for a visible label at (x, y): DrawTranslucentBox, then
\* XPLMDrawString for the label and, if there is one, for the sub-label
DrawLabel(a, x, y) ==
    LET labelWidth    == a.label
        subLabelWidth == a.subLabel
        boxWidth      == IF subLabelWidth > labelWidth THEN subLabelWidth ELSE labelWidth
        boxXStart     == x - (boxWidth \div 2)
        labelX        == boxXStart + (boxWidth - labelWidth) \div 2
        subLabelX     == boxXStart + (boxWidth - subLabelWidth) \div 2
        box  == [ op |-> "DrawTranslucentBox", left |-> boxXStart - 5, top |-> y + 15,
                  right |-> boxXStart + boxWidth + 5, bottom |-> y - 10 ]
        main == [ op |-> "XPLMDrawString", text |-> "label", x |-> labelX, y |-> y ]
        sub  == [ op |-> "XPLMDrawString", text |-> "subLabel", x |-> subLabelX, y |-> y - 25 ]
    IN  IF a.subLabel # 0 THEN <<box, main, sub>> ELSE <<box, main>>

\* CATCH_AC(ac): the exception is caught; nothing more is done for the aircraft
CATCH_AC(rec) == [rec EXCEPT !.threw = TRUE]

\* one iteration of the loop body (try block and handler) for aircraft a at
\* map position k
ProcessAc(k, a) ==
    LET base == [NoAc EXCEPT !.key = k, !.in = a]
    IN  IF SkipAc(a) \/ TooFar(a) THEN base
        ELSE IF a.model = "corrupt" THEN CATCH_AC(base)
        ELSE LET ofs == VertLabelOfs(a)
                 p   == ConvertTo2d(a.x, a.y + ofs, a.z)
                 res == [base EXCEPT !.projected = TRUE, !.vertLabelOfs = ofs,
                                     !.visible = p.visible, !.nonFinite = p.nonFinite,
                                     !.x = p.out_x, !.y = p.out_y]
             IN  IF ~p.visible THEN res
                 ELSE [res EXCEPT !.draws = DrawLabel(a, p.out_x, p.out_y)]


(***************************************************************************)
(* TwoDDrawLabels, in steps: the call, the code up to the loop (or the     *)
(* short-cut return), one step per aircraft, and the return.  Nothing else *)
(* runs while a pass is running.                                           *)
(***************************************************************************)
TwoDDrawLabels ==
    /\ pc = "idle"
    /\ pc' = "entry"
    /\ UNCHANGED <<glob, drefs, frame, host, drawCallbacks, usage, conv,
                   it, posCamera, maxLabelDist, ac, nRefresh, hostReads,
                   frameFresh, failed>>

\* mutant: the matrices are read only while the cache is still empty
PassSetup_ReadsOnlyOnce ==
    /\ pc = "entry"
    /\ IF ShortCut
       THEN /\ pc' = "idle"
            /\ UNCHANGED <<frame, it, posCamera, maxLabelDist, nRefresh, hostReads,
                           frameFresh>>
       ELSE /\ IF gScreenW = 0 /\ gScreenH = 0
               THEN read_matrices /\ nRefresh' = nRefresh + 1 /\ frameFresh' = TRUE
               ELSE UNCHANGED <<frame, nRefresh, frameFresh>>
            /\ posCamera' = [zoom |-> scene.zoom]
            /\ maxLabelDist' = MaxLabelDistOf(glob.maxLabelDist,
                                              glob.bLabelCutOffAtVisibility,
                                              drVisibility, scene.visibility,
                                              scene.zoom)
            /\ hostReads' = {"read_matrices", "XPLMReadCameraPosition"}
                              \cup (IF glob.bLabelCutOffAtVisibility /\ drVisibility # NULL
                                    THEN {"visibility"} ELSE {})
            /\ it' = 1
            /\ pc' = "loop"
    /\ UNCHANGED <<glob, drefs, host, drawCallbacks, usage, conv, ac, failed>>

\* from the short-cut test to the start of the loop
PassSetup ==
    /\ pc = "entry"
    /\ IF ShortCut
       THEN /\ pc' = "idle"
            /\ UNCHANGED <<frame, it, posCamera, maxLabelDist, nRefresh, hostReads,
                           frameFresh>>
       ELSE /\ read_matrices
            /\ nRefresh' = nRefresh + 1
            /\ frameFresh' = TRUE
            /\ posCamera' = [zoom |-> scene.zoom]
            /\ maxLabelDist' = MaxLabelDistOf(glob.maxLabelDist,
                                              glob.bLabelCutOffAtVisibility,
                                              drVisibility, scene.visibility,
                                              scene.zoom)
            /\ hostReads' = {"read_matrices", "XPLMReadCameraPosition"}
                              \cup (IF glob.bLabelCutOffAtVisibility /\ drVisibility # NULL
                                    THEN {"visibility"} ELSE {})
            /\ it' = 1
            /\ pc' = "loop"
    /\ UNCHANGED <<glob, drefs, host, drawCallbacks, usage, conv, ac, failed>>

\* mutant: the try block around the loop, an exception ends the pass
LoopBody_ThrowAborts ==
    /\ pc = "loop"
    /\ it <= NumAc
    /\ \E a \in AircraftSet :
          /\ ac' = ProcessAc(it, a)
          /\ failed' = (failed \/ ac'.threw)
          /\ pc' = IF ac'.threw THEN "idle" ELSE "loop"
    /\ it' = it + 1
    /\ UNCHANGED <<glob, drefs, frame, host, drawCallbacks, usage, conv,
                   posCamera, maxLabelDist, nRefresh, hostReads, frameFresh>>

\* the loop body for the next aircraft of glob.mapAc
LoopBody ==
    /\ pc = "loop"
    /\ it <= NumAc
    /\ \E a \in AircraftSet :
          /\ ac' = ProcessAc(it, a)
          /\ failed' = (failed \/ ac'.threw)
    /\ it' = it + 1
    /\ UNCHANGED <<glob, drefs, frame, host, drawCallbacks, usage, conv,
                   pc, posCamera, maxLabelDist, nRefresh, hostReads, frameFresh>>

\* end of the loop: the function returns and its locals are gone
LoopEnd ==
    /\ pc = "loop"
    /\ it > NumAc
    /\ pc' = "idle"
    /\ it' = 0
    /\ posCamera' = [zoom |-> 0]
    /\ maxLabelDist' = 0
    /\ ac' = NoAc
    /\ failed' = FALSE
    /\ frameFresh' = FALSE
    /\ nRefresh' = 0
    /\ hostReads' = {}
    /\ UNCHANGED <<glob, drefs, frame, host, drawCallbacks, usage, conv>>

\* the host calls the registered drawing callback
CPLabelDrawing ==
    /\ drawCallbacks > 0
    /\ TwoDDrawLabels

(***************************************************************************)
(* Activation, initialisation, cleanup                                     *)
(***************************************************************************)
TwoDActivate(n)   == XPLMRegisterDrawCallback(n)
TwoDDeactivate(n) == XPLMUnregisterDrawCallback(n)

TwoDInit ==
    /\ pc = "idle"
    /\ glob.bDrawLabels => drawCallbacks < MaxCallbacks
    /\ drMatrixWrld'   = XPLMFindDataRef(DR_WORLD)
    /\ drMatrixProj'   = XPLMFindDataRef(DR_PROJ)
    /\ drScreenWidth'  = XPLMFindDataRef(DR_WIDTH)
    /\ drScreenHeight' = XPLMFindDataRef(DR_HEIGHT)
    /\ drVisibility'   = IF XPLMFindDataRef(DR_VIS_VIEW) # NULL
                         THEN XPLMFindDataRef(DR_VIS_VIEW)
                         ELSE XPLMFindDataRef(DR_VIS_WX)
    /\ drFieldOfView'  = XPLMFindDataRef(DR_FOV)
    /\ drawCallbacks' \in IF glob.bDrawLabels THEN TwoDActivate(drawCallbacks)
                           ELSE {drawCallbacks}
    /\ usage' = IF usage = "none" THEN "init_first"
                 ELSE IF usage = "cleanup" THEN "cleanup" ELSE "other"
    /\ UNCHANGED <<glob, frame, host, pass, conv>>

TwoDCleanup ==
    /\ pc = "idle"
    /\ drawCallbacks' \in TwoDDeactivate(drawCallbacks)
    /\ usage' = "cleanup"
    /\ UNCHANGED <<glob, drefs, frame, host, pass, conv>>

(***************************************************************************)
(* API functions                                                           *)
(***************************************************************************)
\* the switch on glob.eLabelOverride: the value _enable has after it
EffectiveEnable(_enable) ==
    IF glob.eLabelOverride = SWITCH_CFG_ON THEN TRUE
    ELSE IF glob.eLabelOverride = SWITCH_CFG_OFF THEN FALSE
    ELSE _enable

\* mutant: activates or deactivates without testing for a change
XPMPEnableAircraftLabels_NoChangeTest(_enable) ==
    LET e == EffectiveEnable(_enable)
    IN  /\ pc = "idle"
        /\ e => drawCallbacks < MaxCallbacks
        /\ glob' = [glob EXCEPT !.bDrawLabels = e]
        /\ drawCallbacks' \in IF e THEN TwoDActivate(drawCallbacks)
                               ELSE TwoDDeactivate(drawCallbacks)
        /\ usage' = IF usage = "none" THEN "other" ELSE usage
        /\ UNCHANGED <<drefs, frame, host, pass, conv>>

XPMPEnableAircraftLabels(_enable) ==
    LET e == EffectiveEnable(_enable)
    IN  /\ pc = "idle"
        /\ (glob.bDrawLabels # e /\ e) => drawCallbacks < MaxCallbacks
        /\ IF glob.bDrawLabels # e
           THEN /\ glob' = [glob EXCEPT !.bDrawLabels = e]
                /\ drawCallbacks' \in IF e THEN TwoDActivate(drawCallbacks)
                                       ELSE TwoDDeactivate(drawCallbacks)
           ELSE UNCHANGED <<glob, drawCallbacks>>
        /\ usage' = IF usage = "none" THEN "other" ELSE usage
        /\ UNCHANGED <<drefs, frame, host, pass, conv>>

XPMPDisableAircraftLabels == XPMPEnableAircraftLabels(FALSE)

XPMPDrawingAircraftLabels == glob.bDrawLabels

\* the label distances a caller configures, in nautical miles
DistNmSet == {0, 2}

XPMPSetAircraftLabelDist(_dist_nm, _bCutOffAtVisibility) ==
    /\ pc = "idle"
    /\ glob' = [glob EXCEPT !.bLabelCutOffAtVisibility = _bCutOffAtVisibility,
                            !.maxLabelDist = Max(_dist_nm, 1) * M_per_NM]
    /\ UNCHANGED <<drefs, frame, host, drawCallbacks, pass, usage, conv>>

(***************************************************************************)
(* The host moves on to another frame between two passes                   *)
(***************************************************************************)
HostNextFrame ==
    /\ pc = "idle"
    /\ \E s \in 1..Len(Scenes) : s # hostScene /\ hostScene' = s
    /\ UNCHANGED <<glob, drefs, frame, hostDataRefs, drawCallbacks, pass, usage, conv>>

(***************************************************************************)
(* Initial state: the statics of 2D.cpp as loaded, glob as configured at   *)
(* startup (labels are drawn unless switched off; the override and the     *)
(* graphics driver do not change afterwards)                               *)
(***************************************************************************)
GlobInit ==
    glob \in [ bDrawLabels : {TRUE},
               eLabelOverride : ThreeWaySwitchTy,
               bLabelCutOffAtVisibility : BOOLEAN,
               maxLabelDist : {Max(d, 1) * M_per_NM : d \in DistNmSet},
               UsingModernGraphicsDriver : BOOLEAN ]

Init ==
    /\ GlobInit
    /\ drMatrixWrld = NULL /\ drMatrixProj = NULL
    /\ drScreenWidth = NULL /\ drScreenHeight = NULL
    /\ drVisibility = NULL /\ drFieldOfView = NULL
    /\ gMatrixWrld = MatZero /\ gMatrixProj = MatZero
    /\ gScreenW = 0 /\ gScreenH = 0 /\ gFOV = 0
    /\ hostDataRefs \in HostDataRefChoices
    /\ hostScene \in 1..Len(Scenes)
    /\ drawCallbacks = 0
    /\ pc = "idle" /\ it = 0
    /\ posCamera = [zoom |-> 0] /\ maxLabelDist = 0
    /\ ac = NoAc
    /\ nRefresh = 0 /\ hostReads = {} /\ frameFresh = FALSE /\ failed = FALSE
    /\ usage = "none"
    /\ conv = NoConv

Next ==
    \/ TwoDInit
    \/ TwoDCleanup
    \/ \E e \in BOOLEAN : XPMPEnableAircraftLabels(e)
    \/ XPMPDisableAircraftLabels
    \/ \E d \in DistNmSet, c \in BOOLEAN : XPMPSetAircraftLabelDist(d, c)
    \/ HostNextFrame
    \/ CPLabelDrawing
    \/ TwoDDrawLabels
    \/ PassSetup
    \/ LoopBody
    \/ LoopEnd

Spec == Init /\ [][Next]_vars

(***************************************************************************)
(* The projection by itself: the module initialised, the frame state any   *)
(* the cache can hold (zero before the first refresh, else what the host   *)
(* reported), any point, one call of ConvertTo2d.                          *)
(***************************************************************************)
InitProj ==
    /\ glob \in [ bDrawLabels : {TRUE},
                  eLabelOverride : {SWITCH_CFG_AUTO},
                  bLabelCutOffAtVisibility : {TRUE},
                  maxLabelDist : {M_per_NM},
                  UsingModernGraphicsDriver : BOOLEAN ]
    /\ drMatrixWrld = DR_WORLD /\ drMatrixProj = DR_PROJ
    /\ drScreenWidth = DR_WIDTH /\ drScreenHeight = DR_HEIGHT
    /\ drVisibility = DR_VIS_VIEW /\ drFieldOfView = DR_FOV
    /\ gMatrixWrld \in WorldMatrices /\ gMatrixProj \in ProjMatrices
    /\ gScreenW \in ScreenSizes /\ gScreenH = 4 /\ gFOV = 60
    /\ hostDataRefs = AllDataRefs
    /\ hostScene = 1
    /\ drawCallbacks = 1
    /\ pc = "idle" /\ it = 0
    /\ posCamera = [zoom |-> 0] /\ maxLabelDist = 0
    /\ ac = NoAc
    /\ nRefresh = 0 /\ hostReads = {} /\ frameFresh = FALSE /\ failed = FALSE
    /\ usage = "init_first"
    /\ conv = NoConv

CallConvertTo2d ==
    /\ \E p \in PointSet :
          LET r == ConvertTo2d(p.x, p.y, p.z)
          IN  conv' = [ called |-> TRUE, x |-> p.x, y |-> p.y, z |-> p.z,
                        out_x |-> r.out_x, out_y |-> r.out_y,
                        nonFinite |-> r.nonFinite, visible |-> r.visible ]
    /\ UNCHANGED <<glob, drefs, frame, host, drawCallbacks, pass, usage>>

NextProj == CallConvertTo2d

SpecProj == InitProj /\ [][NextProj]_vars

(***************************************************************************)
(* Properties.  Helpers state the conditions in the specification's terms, *)
(* independently of the operators above.                                   *)
(***************************************************************************)
\* an aircraft has been processed in the running pass
Processed == pc = "loop" /\ ac.key # 0

\* the vertical offset by which the label is raised above the aircraft
RaisedBy(a) == CASE a.model = "L" -> 6 [] a.model = "H" -> 11 [] OTHER -> 10

\* the projector reports the aircraft's raised position visible
RaisedPointVisible(a) == ConvertTo2d(a.x, a.y + RaisedBy(a), a.z).visible

\* the draw calls issued for the aircraft processed last
HasQuad      == \E i \in 1..Len(ac.draws) : ac.draws[i].op = "DrawTranslucentBox"
HasLabelText == \E i \in 1..Len(ac.draws) :
                   ac.draws[i].op = "XPLMDrawString" /\ ac.draws[i].text = "label"
NoDrawCall   == ac.draws = <<>>

\* C1: an aircraft that is rendered, within maxLabelDistance and projected
\* visible, but whose own label flag is off, gets no draw call under override
\* AUTO and gets the background quad and the label text under FORCE_ON.
C1_LabelFlagOffFollowsOverride ==
    ( /\ Processed
      /\ ~ac.threw
      /\ ac.in.rendered
      /\ ~ac.in.shallDrawLabel
      /\ ac.in.camDist <= maxLabelDist
      /\ RaisedPointVisible(ac.in) )
    => /\ glob.eLabelOverride = SWITCH_CFG_AUTO => NoDrawCall
       /\ glob.eLabelOverride = SWITCH_CFG_ON => HasQuad /\ HasLabelText

C1_Witness ==
    /\ Processed
    /\ ac.in.rendered /\ ~ac.in.shallDrawLabel
    /\ ac.in.camDist <= maxLabelDist
    /\ RaisedPointVisible(ac.in)
    /\ glob.eLabelOverride = SWITCH_CFG_ON
    /\ HasQuad /\ HasLabelText

\* C2: a pass started while label drawing is disabled and the override is not
\* FORCE_ON returns at once: no refresh, no host data read, no aircraft
\* iterated, no draw call, cached frame state unchanged.
C2_DisabledPassShortCircuits ==
    [][ ( /\ pc = "entry"
          /\ ~XPMPDrawingAircraftLabels
          /\ glob.eLabelOverride # SWITCH_CFG_ON )
        => /\ pc' = "idle"
           /\ UNCHANGED frame
           /\ nRefresh' = 0 /\ hostReads' = {}
           /\ UNCHANGED <<it, posCamera, maxLabelDist>>
           /\ ac' = NoAc ]_vars

C2_Witness ==
    /\ pc = "entry"
    /\ ~XPMPDrawingAircraftLabels
    /\ glob.eLabelOverride = SWITCH_CFG_AUTO
    /\ gScreenW # 0

\* the aircraft is one a label is to be drawn for in the running pass
Eligible(a) ==
    /\ a.rendered
    /\ a.shallDrawLabel \/ glob.eLabelOverride = SWITCH_CFG_ON
    /\ a.camDist <= maxLabelDist
    /\ RaisedPointVisible(a)

\* C3: an aircraft whose processing raises gets no label and the pass goes
\* on; every eligible aircraft after it still gets its draw calls, and the
\* loop only ends by the return after the last aircraft.
C3_FailureDoesNotAbortPass ==
    [][ pc = "loop"
        => IF it <= NumAc
           THEN /\ pc' = "loop" /\ it' = it + 1
                /\ ac'.key = it
                /\ ac'.threw => ac'.draws = <<>>
                /\ (failed /\ ~ac'.threw /\ Eligible(ac'.in))
                      => /\ \E i \in 1..Len(ac'.draws) : ac'.draws[i].op = "DrawTranslucentBox"
                         /\ \E i \in 1..Len(ac'.draws) : ac'.draws[i].op = "XPLMDrawString"
           ELSE pc' = "idle" ]_vars

C3_Witness ==
    /\ Processed
    /\ failed /\ ~ac.threw
    /\ Eligible(ac.in)
    /\ HasQuad /\ HasLabelText

\* C4: a draw call is issued for an aircraft only if it is rendered, its
\* camera distance does not exceed the pass's maxLabelDistance, and the
\* projection of its raised position is reported visible.
C4_DrawOnlyIfRenderedNearVisible ==
    ~NoDrawCall
    => /\ Processed
       /\ ac.in.rendered
       /\ ac.in.camDist <= maxLabelDist
       /\ RaisedPointVisible(ac.in)
       /\ ac.projected /\ ac.visible

C4_Witness ==
    /\ Processed
    /\ ~NoDrawCall
    /\ ac.in.camDist = maxLabelDist
    /\ ~ac.in.shallDrawLabel

\* the cached value of every field whose data ref is resolved is the one the
\* host reports for the current frame
FrameCurrent ==
    /\ drMatrixWrld # NULL => gMatrixWrld = scene.wrld
    /\ drMatrixProj # NULL => gMatrixProj = scene.proj
    /\ drScreenWidth # NULL => gScreenW = scene.width
    /\ drScreenHeight # NULL => gScreenH = scene.height
    /\ drFieldOfView # NULL => gFOV = scene.fov

\* C5: a pass that is not short-circuited refreshes the frame state exactly
\* once, before the first projection; no projection uses frame state of an
\* earlier pass.
C5_RefreshOncePerPassBeforeProjection ==
    /\ pc = "loop" => nRefresh = 1 /\ frameFresh /\ FrameCurrent
    /\ ac.projected => pc = "loop"

C5_Witness ==
    /\ pc = "loop"
    /\ ac.projected
    /\ nRefresh = 1
    /\ hostScene = 2 /\ gMatrixWrld = MatLookDown

\* the clip-space vector of the recorded call of the projector
ConvClip == ClipOf(conv.x, conv.y, conv.z)

\* z'/w' lies in [lo, hi]   (w' # 0)
DepthWithin(zc, wc, lo, hi) ==
    IF wc > 0 THEN lo * wc <= zc /\ zc <= hi * wc
    ELSE lo * wc >= zc /\ zc >= hi * wc

\* C6: the projector reports not visible every point whose depth z'/w' is
\* outside [0,1] with the modern driver and outside [-1,1] otherwise; a depth
\* in [-1,0) is visible with the legacy driver and not with the modern one.
C6_DepthOutsideRangeNotVisible ==
    (conv.called /\ ConvClip[4] # 0)
    => LET zc == ConvClip[3]
           wc == ConvClip[4]
       IN  /\ glob.UsingModernGraphicsDriver /\ ~DepthWithin(zc, wc, 0, 1) => ~conv.visible
           /\ ~glob.UsingModernGraphicsDriver /\ ~DepthWithin(zc, wc, -1, 1) => ~conv.visible
           /\ (DepthWithin(zc, wc, -1, 0) /\ ~DepthWithin(zc, wc, 0, 0))
                 => (conv.visible <=> ~glob.UsingModernGraphicsDriver)

C6_Witness ==
    /\ conv.called
    /\ ConvClip[4] # 0
    /\ DepthWithin(ConvClip[3], ConvClip[4], -1, 0)
    /\ ~DepthWithin(ConvClip[3], ConvClip[4], 0, 0)
    /\ ~glob.UsingModernGraphicsDriver
    /\ conv.visible

\* C7: when the clip-space w' is 0 the projector reports not visible and no
\* result of the division by zero goes into the screen coordinates.
C7_ZeroWGuarded ==
    (conv.called /\ ConvClip[4] = 0) => ~conv.visible /\ ~conv.nonFinite

\* C8: a refresh raises no error; a frame-state field whose data source is
\* unavailable keeps the value it had, the others take the host's values.
C8_RefreshKeepsFieldsWithoutSource ==
    [][ (pc = "entry" /\ ~ShortCut)
        => /\ pc' = "loop"
           /\ gMatrixWrld' = IF drMatrixWrld = NULL THEN gMatrixWrld ELSE scene.wrld
           /\ gMatrixProj' = IF drMatrixProj = NULL THEN gMatrixProj ELSE scene.proj
           /\ gScreenW' = IF drScreenWidth = NULL THEN gScreenW ELSE scene.width
           /\ gScreenH' = IF drScreenHeight = NULL THEN gScreenH ELSE scene.height
           /\ gFOV' = IF drFieldOfView = NULL THEN gFOV ELSE scene.fov ]_vars

C8_Witness ==
    /\ pc = "loop"
    /\ usage # "none"
    /\ drMatrixWrld = NULL /\ gMatrixWrld = MatZero
    /\ drScreenWidth = NULL /\ gScreenW = 0
    /\ drMatrixProj # NULL /\ gMatrixProj = scene.proj
    /\ drScreenHeight # NULL /\ gScreenH = scene.height
    /\ drFieldOfView # NULL /\ gFOV = scene.fov

\* what the host can report as visibility and as camera zoom
HostVisibilities == {Scenes[i].visibility : i \in 1..Len(Scenes)}
HostZooms        == {Scenes[i].zoom : i \in 1..Len(Scenes)}

\* C9: the cutoff of the pass is min(configured, effective visibility) * zoom,
\* the effective visibility being the host's when cut-off-at-visibility is on
\* and the visibility data ref is there, else the configured distance; it does
\* not decrease with a larger zoom nor increase with a smaller visibility.
C9_MaxLabelDistance ==
    pc = "loop"
    => LET cfg == glob.maxLabelDist
           useVis == glob.bLabelCutOffAtVisibility /\ drVisibility # NULL
           eff == IF useVis THEN scene.visibility ELSE cfg
           smaller == IF cfg <= eff THEN cfg ELSE eff
           With(v, z) == MaxLabelDistOf(cfg, glob.bLabelCutOffAtVisibility,
                                        drVisibility, v, z)
       IN  /\ maxLabelDist = smaller * posCamera.zoom
           /\ posCamera.zoom = scene.zoom
           /\ \A z \in HostZooms :
                 z >= scene.zoom => With(scene.visibility, z) >= maxLabelDist
           /\ \A v \in HostVisibilities :
                 v <= scene.visibility => With(v, scene.zoom) <= maxLabelDist

C9_Witness ==
    /\ pc = "loop"
    /\ glob.bLabelCutOffAtVisibility /\ drVisibility # NULL
    /\ scene.visibility < glob.maxLabelDist
    /\ scene.zoom > 1
    /\ maxLabelDist = scene.visibility * scene.zoom

\* the callback is registered once when labels are reported enabled, and not
\* registered when they are reported disabled
RegisteredIffEnabled ==
    drawCallbacks = IF XPMPDrawingAircraftLabels THEN 1 ELSE 0

\* C10 as stated: after any sequence of TwoDInit, XPMPEnableAircraftLabels
\* and XPMPDisableAircraftLabels calls the callback is registered exactly
\* once when labels are reported enabled and not at all when disabled.
C10_AnySequence ==
    usage \in {"init_first", "other"} => RegisteredIffEnabled

\* C10 amended: after TwoDInit called once, before any other of these calls,
\* and any sequence of XPMPEnableAircraftLabels and XPMPDisableAircraftLabels
\* calls after it, the callback is registered exactly once when labels are
\* reported enabled and not at all when disabled.
C10_InitFirstThenAnySequence ==
    usage = "init_first" => RegisteredIffEnabled

C10_Witness ==
    /\ usage = "init_first"
    /\ ~XPMPDrawingAircraftLabels
    /\ drawCallbacks = 0
    /\ glob.eLabelOverride = SWITCH_CFG_AUTO

====
